---- MODULE Spec2Model ----
(***************************************************************************)
(* A model of functorch/_src/aot_autograd.py: the two partitioners of a    *)
(* joint forward+backward graph (default_partition and                     *)
(* partition_with_recompute_fwd_in_bwd), the sub-graph extractor they      *)
(* share, and the compiled-function cache that drives them.                *)
(*                                                                         *)
(* A graph is [nodes, out]: nodes is the node list in insertion order      *)
(* (which is a topological order), a node's args are indices into that     *)
(* list, and out is the argument list of the single output node.  The      *)
(* output node itself is not in the list; where the code meets it as a     *)
(* user of another node it is called OutputId.                             *)
(***************************************************************************)
EXTENDS Integers, Sequences, FiniteSets, TLC

\* ------------------------------------------------------------------ bounds
MaxNodes == 4
MaxArity == 3
MaxBwdOutputs == 2
MaxSize == 2
MaxInputs == 2
MaxOutputs == 1
MaxKeys == 2
MaxThreads == 2
MaxCalls == 3
MaxOuts == 2
MaxSaved == 1

\* ----------------------------------------------------------------- helpers
Range(s) == {s[i] : i \in 1..Len(s)}

SeqsUpTo(S, n) == UNION {[1..k -> S] : k \in 1..n}

\* The sequences that hold every member of the finite set S exactly once.
Orders(S) == {s \in [1..Cardinality(S) -> S] : Range(s) = S}

IndexOf(s, x) == CHOOSE i \in 1..Len(s) : s[i] = x

RECURSIVE SumOver(_, _)
SumOver(S, f) ==
    IF S = {} THEN 0
    ELSE LET x == CHOOSE y \in S : TRUE IN f[x] + SumOver(S \ {x}, f)

\* ------------------------------------------------------------- graph model
OutputId == 0

EmptyGraph == [nodes |-> <<>>, out |-> <<>>]

Placeholder(target, name) ==
    [op |-> "placeholder", target |-> target, args |-> <<>>, name |-> name]

CallFunction(target, args, name) ==
    [op |-> "call_function", target |-> target, args |-> args, name |-> name]

GetAttr(name) ==
    [op |-> "get_attr", target |-> "_tensor_constant", args |-> <<>>, name |-> name]

\* node.users: the nodes that take i as an argument, the output node included.
Users(G, i) ==
    {j \in 1..Len(G.nodes) : i \in Range(G.nodes[j].args)}
        \cup (IF i \in Range(G.out) THEN {OutputId} ELSE {})

is_primal(node) == node.op = "placeholder" /\ node.target # "tangents"

is_tangent(node) == node.op = "placeholder" /\ node.target = "tangents"

primal_inputs(G) == SelectSeq([i \in 1..Len(G.nodes) |-> i], LAMBDA i : is_primal(G.nodes[i]))

tangent_inputs(G) == SelectSeq([i \in 1..Len(G.nodes) |-> i], LAMBDA i : is_tangent(G.nodes[i]))

GraphPlaceholders(G) ==
    SelectSeq([i \in 1..Len(G.nodes) |-> i], LAMBDA i : G.nodes[i].op = "placeholder")

\* ------------------------------------------------------------- evaluation
\* Values are terms of the free algebra over the operators: running a graph
\* on inputs gives equal terms exactly when it applies the same operators to
\* the same values in the same argument positions.
Leaf(f, id) == [f |-> f, id |-> id, a |-> <<>>]

Apply(target, argvals) == [f |-> target, id |-> 0, a |-> argvals]

RECURSIVE EvalNode(_, _, _)
EvalNode(G, inputs, i) ==
    LET node == G.nodes[i] IN
    CASE node.op = "placeholder" ->
            inputs[IndexOf(GraphPlaceholders(G), i)]
      [] node.op = "get_attr" -> Leaf(node.target, node.name)
      [] OTHER ->
            Apply(node.target,
                  [k \in 1..Len(node.args) |-> EvalNode(G, inputs, node.args[k])])

\* The outputs of graph G called with the values `inputs`, one per placeholder.
RunGraph(G, inputs) == [k \in 1..Len(G.out) |-> EvalNode(G, inputs, G.out[k])]

\* The value the joint graph gives node i: its placeholders are fed one leaf each.
JointInputs(G) ==
    [k \in 1..Len(GraphPlaceholders(G)) |->
        LET i == GraphPlaceholders(G)[k] IN Leaf(G.nodes[i].target, G.nodes[i].name)]

JointValue(G, i) == EvalNode(G, JointInputs(G), i)

\* ------------------------------------------------- dead-code elimination
\* Graph.eliminate_dead_code: walk the nodes in reverse and erase each node
\* that has no user left and is not a placeholder (placeholders and the
\* output node are impure and always kept).
RECURSIVE DCEKeep(_, _, _)
DCEKeep(G, i, kept) ==
    IF i = 0 THEN kept
    ELSE LET used == i \in Range(G.out)
                       \/ \E j \in kept : i \in Range(G.nodes[j].args)
         IN  DCEKeep(G, i - 1,
                     IF G.nodes[i].op = "placeholder" \/ used
                     THEN kept \cup {i} ELSE kept)

Renumber(G, keep) ==
    LET new(i) == Cardinality({j \in keep : j <= i})
        idx == SelectSeq([i \in 1..Len(G.nodes) |-> i], LAMBDA i : i \in keep)
    IN  [nodes |-> [k \in 1..Len(idx) |->
                       [G.nodes[idx[k]] EXCEPT
                          !.args = [a \in 1..Len(@) |-> new(@[a])]]],
         out |-> [k \in 1..Len(G.out) |-> new(G.out[k])]]

EliminateTrailingDeadNode(G) ==
    LET n == Len(G.nodes)
        dead == n > 0 /\ G.nodes[n].op # "placeholder" /\ n \notin Range(G.out)
    IN  Renumber(G, IF dead THEN 1..(n - 1) ELSE 1..n)

eliminate_dead_code(G) == Renumber(G, DCEKeep(G, Len(G.nodes), {}))

\* ------------------------------------------------ the sub-graph extractor
Invalid == 0

\* The name a fresh placeholder gets is the source node's name; whether that
\* name reads as a primal or a tangent follows the source placeholder's.
PlaceholderFor(node) ==
    Placeholder(IF node.op = "placeholder" THEN node.target ELSE "other", node.name)

ExtractStepFirstArg(G, inputs, st, i) ==
    LET node == G.nodes[i]
        emit(n) == [g |-> Append(st.g, n), env |-> Append(st.env, Len(st.g) + 1)]
        skip(v) == [g |-> st.g, env |-> Append(st.env, v)]
    IN  CASE i \in Range(inputs) -> skip(IndexOf(inputs, i))
          [] node.op = "placeholder" -> skip(Invalid)
          [] node.op = "call_function" ->
                IF st.env[node.args[1]] = Invalid
                THEN skip(Invalid)
                ELSE emit([node EXCEPT
                             !.args = [k \in 1..Len(@) |-> st.env[@[k]]]])
          [] OTHER -> emit(node)

\* The loop over joint_graph.nodes: st.g is the new graph so far, st.env maps
\* each source node met so far to its node in the new graph or to Invalid.
ExtractStep(G, inputs, st, i) ==
    LET node == G.nodes[i]
        emit(n) == [g |-> Append(st.g, n), env |-> Append(st.env, Len(st.g) + 1)]
        skip(v) == [g |-> st.g, env |-> Append(st.env, v)]
    IN  CASE i \in Range(inputs) -> skip(IndexOf(inputs, i))
          [] node.op = "placeholder" -> skip(Invalid)
          [] node.op = "call_function" ->
                IF \E k \in 1..Len(node.args) : st.env[node.args[k]] = Invalid
                THEN skip(Invalid)
                ELSE emit([node EXCEPT
                             !.args = [k \in 1..Len(@) |-> st.env[@[k]]]])
          [] OTHER -> emit(node)

InputPlaceholdersInGraphOrder(G, inputs) ==
    LET idx == SelectSeq([k \in 1..Len(G.nodes) |-> k], LAMBDA i : i \in Range(inputs))
    IN  [k \in 1..Len(idx) |-> PlaceholderFor(G.nodes[idx[k]])]

\* The first loop: a placeholder per member of inputs, in list order.
InputPlaceholders(G, inputs) ==
    [k \in 1..Len(inputs) |-> PlaceholderFor(G.nodes[inputs[k]])]

RECURSIVE ExtractWalk(_, _, _)
ExtractWalk(G, inputs, i) ==
    IF i = 0
    THEN [g |-> InputPlaceholders(G, inputs), env |-> <<>>]
    ELSE ExtractStep(G, inputs, ExtractWalk(G, inputs, i - 1), i)

\* _extract_graph_with_inputs_outputs: ok is FALSE when building the output
\* raises because some requested output is mapped to Invalid.
ExtractGraph(G, inputs, outputs) ==
    LET st == ExtractWalk(G, inputs, Len(G.nodes)) IN
    IF \E k \in 1..Len(outputs) : st.env[outputs[k]] = Invalid
    THEN [ok |-> FALSE, graph |-> EmptyGraph]
    ELSE [ok |-> TRUE,
          graph |-> eliminate_dead_code(
                        [nodes |-> st.g,
                         out |-> [k \in 1..Len(outputs) |-> st.env[outputs[k]]]])]

\* --------------------------------------------------- the simple partitioner
\* The colouring loop of default_partition over the first i nodes.
RECURSIVE Classify(_, _)
Classify(G, i) ==
    IF i = 0 THEN [bw_nodes |-> {}, saved_nodes |-> {}]
    ELSE LET c == Classify(G, i - 1)
             n == G.nodes[i]
             has_color == \E a \in Range(n.args) :
                              a \in c.bw_nodes \/ a \in c.saved_nodes
         IN  IF is_tangent(n)
             THEN [c EXCEPT !.bw_nodes = @ \cup {i}]
             ELSE IF has_color
                  THEN [bw_nodes |-> c.bw_nodes \cup {i},
                        saved_nodes |-> c.saved_nodes
                              \cup {a \in Range(n.args) : a \notin c.bw_nodes}]
                  ELSE c

ClassifyAll(G) == Classify(G, Len(G.nodes))

\* A graph under construction by node_copy: value_remap[i] is the copy of
\* source node i, or 0 while it has none; err records a KeyError.
CopyInit(G, nodes0, remap0) ==
    [g |-> nodes0, value_remap |-> remap0, err |-> FALSE]

CopyNode(G, st, i) ==
    LET node == G.nodes[i] IN
    IF st.err \/ \E k \in 1..Len(node.args) : st.value_remap[node.args[k]] = 0
    THEN [st EXCEPT !.err = TRUE]
    ELSE [g |-> Append(st.g, [node EXCEPT
                                !.args = [k \in 1..Len(@) |-> st.value_remap[@[k]]]]),
          value_remap |-> [st.value_remap EXCEPT ![i] = Len(st.g) + 1],
          err |-> FALSE]

RECURSIVE CopyWhere(_, _, _, _)
CopyWhere(G, st0, wanted, i) ==
    IF i = 0 THEN st0
    ELSE LET st == CopyWhere(G, st0, wanted, i - 1) IN
         IF i \in wanted THEN CopyNode(G, st, i) ELSE st

\* graph.output([value_remap[i] for i in outs]) on a graph built by node_copy.
CopyFinish(st, outs) ==
    IF st.err \/ \E k \in 1..Len(outs) : st.value_remap[outs[k]] = 0
    THEN [ok |-> FALSE, graph |-> EmptyGraph]
    ELSE [ok |-> TRUE,
          graph |-> [nodes |-> st.g,
                     out |-> [k \in 1..Len(outs) |-> st.value_remap[outs[k]]]]]

NoRemap(G) == [i \in 1..Len(G.nodes) |-> 0]

\* The backward graph: one placeholder per saved node, in the iteration
\* order of the set saved_nodes, then a copy of every node that is coloured
\* or is a backward output.
DefaultBwGraph(G, num_fwd_outputs, c, order) ==
    LET bw_outputs == SubSeq(G.out, num_fwd_outputs + 1, Len(G.out))
        st0 == CopyInit(G,
                 [k \in 1..Len(order) |-> Placeholder("other", G.nodes[order[k]].name)],
                 [i \in 1..Len(G.nodes) |->
                     IF i \in Range(order) THEN IndexOf(order, i) ELSE 0])
    IN  CopyFinish(CopyWhere(G, st0, c.bw_nodes \cup Range(bw_outputs), Len(G.nodes)),
                   bw_outputs)

DefaultFwGraphSavedFirst(G, num_fwd_outputs, c, order) ==
    CopyFinish(CopyWhere(G, CopyInit(G, <<>>, NoRemap(G)),
                         (1..Len(G.nodes)) \ c.bw_nodes, Len(G.nodes)),
               order \o SubSeq(G.out, 1, num_fwd_outputs))

\* The forward graph: a copy of every node that is not coloured; its outputs
\* are the forward outputs followed by the saved nodes in that same order.
DefaultFwGraph(G, num_fwd_outputs, c, order) ==
    CopyFinish(CopyWhere(G, CopyInit(G, <<>>, NoRemap(G)),
                         (1..Len(G.nodes)) \ c.bw_nodes, Len(G.nodes)),
               SubSeq(G.out, 1, num_fwd_outputs) \o order)

\* default_partition.  `order` is the order in which this call iterates the
\* set saved_nodes; the same set object is iterated for the backward
\* placeholders and for the forward outputs.
default_partition(G, num_fwd_outputs, order) ==
    LET c == ClassifyAll(G)
        bw == DefaultBwGraph(G, num_fwd_outputs, c, order)
        fw == DefaultFwGraph(G, num_fwd_outputs, c, order)
    IN  [ok |-> bw.ok /\ fw.ok,
         fw |-> IF bw.ok /\ fw.ok THEN fw.graph ELSE EmptyGraph,
         bw |-> IF bw.ok /\ fw.ok THEN bw.graph ELSE EmptyGraph,
         saved |-> IF bw.ok /\ fw.ok THEN order ELSE <<>>]

\* --------------------------------------------------- the min-cut partitioner
compute_intense_ops ==
    {"aten.bmm", "aten.addmm", "aten.cudnn_convolution_backward",
     "aten.cudnn_convolution", "aten.max_pool2d_with_indices"}

view_ops ==
    {"aten.expand", "aten.clone", "aten.transpose", "aten.t", "aten.view",
     "aten._unsafe_view", "aten.permute", "aten._reshape_alias", "aten.squeeze"}

misc_ops ==
    {"aten.cat", "aten.stack", "aten.select", "aten.repeat", "aten.unbind",
     "aten.new_zeros", "aten.cudnn_batch_norm"}

random_ops == {"aten.rand_like"}

buggy_ops == {"aten.native_layer_norm"}

nothing_pinned == {}

not_recomputable_ops ==
    compute_intense_ops \cup view_ops \cup misc_ops \cup random_ops \cup buggy_ops

\* Every node of the graph as the loops `for node in graph.nodes` meet them,
\* the output node last.
AllNodes(G) == (1..Len(G.nodes)) \cup {OutputId}

\* The loop that builds tangent_closure, over the first i nodes: a tangent
\* placeholder enters the set, and every node in the set brings its users.
RECURSIVE TangentClosureUpTo(_, _)
TangentClosureUpTo(G, i) ==
    IF i = 0 THEN {}
    ELSE LET prev == TangentClosureUpTo(G, i - 1)
             cur == IF is_tangent(G.nodes[i]) THEN prev \cup {i} ELSE prev
         IN  IF i \in cur THEN cur \cup Users(G, i) ELSE cur

tangent_closure(G) == TangentClosureUpTo(G, Len(G.nodes))

\* The vertices of the flow network: node.name + "_in", node.name + "_out".
Source == [n |-> OutputId, side |-> "source"]

Sink == [n |-> OutputId, side |-> "sink"]

In(i) == [n |-> i, side |-> "in"]

Out(i) == [n |-> i, side |-> "out"]

Edge(u, v, capacity, inf) == [u |-> u, v |-> v, capacity |-> capacity, inf |-> inf]

InfEdge(u, v) == Edge(u, v, 0, TRUE)

\* node.meta as ShapeProp leaves it: the output node's value is a list, so
\* its type is no tensor.
IsTensor(meta, i) == i # OutputId /\ meta[i].tensor

NodeWeightIgnoringType(G, meta, i) ==
    IF i = OutputId THEN Edge(In(i), Out(i), 0, TRUE)
    ELSE IF G.nodes[i].op = "placeholder"
         THEN Edge(In(i), Out(i), meta[i].nbytes, FALSE)
         ELSE Edge(In(i), Out(i), meta[i].nbytes * 2, FALSE)

NodeWeightByteSize(G, meta, i) ==
    IF ~IsTensor(meta, i) THEN Edge(In(i), Out(i), 0, TRUE)
    ELSE Edge(In(i), Out(i), meta[i].nbytes, FALSE)

NodeWeightAtLeastOne(G, meta, i) ==
    IF ~IsTensor(meta, i) THEN Edge(In(i), Out(i), 0, TRUE)
    ELSE IF meta[i].nbytes = 0 THEN Edge(In(i), Out(i), 1, FALSE)
    ELSE IF G.nodes[i].op = "placeholder"
         THEN Edge(In(i), Out(i), meta[i].nbytes, FALSE)
         ELSE Edge(In(i), Out(i), meta[i].nbytes * 2, FALSE)

\* The capacity of node i's in->out edge: infinite for a value that is no
\* tensor, the byte size for a placeholder, twice the byte size otherwise.
NodeWeight(G, meta, i) ==
    IF ~IsTensor(meta, i) THEN Edge(In(i), Out(i), 0, TRUE)
    ELSE IF G.nodes[i].op = "placeholder"
         THEN Edge(In(i), Out(i), meta[i].nbytes, FALSE)
         ELSE Edge(In(i), Out(i), meta[i].nbytes * 2, FALSE)

NodeEdgesFreeUserEdges(G, meta, closure, i) ==
    IF i \in closure THEN {InfEdge(In(i), Sink)}
    ELSE (IF i # OutputId /\ G.nodes[i].op = "placeholder"
               /\ G.nodes[i].target = "primals"
          THEN {InfEdge(Source, In(i))} ELSE {})
         \cup (IF i # OutputId /\ G.nodes[i].target \in not_recomputable_ops
               THEN {InfEdge(Source, In(i))} ELSE {})
         \cup {NodeWeight(G, meta, i)}
         \cup {Edge(Out(i), In(u), 0, FALSE) : u \in Users(G, i)}

\* The edges the second loop adds for node i.
NodeEdges(G, meta, closure, i) ==
    IF i \in closure THEN {InfEdge(In(i), Sink)}
    ELSE (IF i # OutputId /\ G.nodes[i].op = "placeholder"
               /\ G.nodes[i].target = "primals"
          THEN {InfEdge(Source, In(i))} ELSE {})
         \cup (IF i # OutputId /\ G.nodes[i].target \in not_recomputable_ops
               THEN {InfEdge(Source, In(i))} ELSE {})
         \cup {NodeWeight(G, meta, i)}
         \cup {InfEdge(Out(i), In(u)) : u \in Users(G, i)}

FlowNetwork(G, meta) ==
    UNION {NodeEdges(G, meta, tangent_closure(G), i) : i \in AllNodes(G)}

Vertices(E) == {e.u : e \in E} \cup {e.v : e \in E}

\* nx.minimum_cut.  With capacities that admit a finite cut it returns
\* (cut_value, (reachable, non_reachable)) where non_reachable is the set of
\* vertices that still reach the sink in the residual network of a maximum
\* flow: the sink side of the minimum cut nearest the sink, which is the
\* intersection of the sink sides of all minimum cuts.  A vertex pair
\* (x_in, x_out) is never split with x_in on the sink side, so the source
\* sides are searched among those that keep, per node, both vertices, the
\* in vertex alone, or neither.
Crossing(E, S) == {e \in E : e.u \in S /\ e.v \notin S}

SourceSides(E) ==
    LET V == Vertices(E)
        ns == {v.n : v \in {w \in V : w.side = "in" /\ InfEdge(w, Sink) \notin E}}
        side(lab) == {Source}
                        \cup {In(n) : n \in {m \in ns : lab[m] # "B"}}
                        \cup {Out(n) : n \in {m \in ns : lab[m] = "F"}}
    IN  {side(lab) \cap V : lab \in [ns -> {"F", "C", "B"}]}

FiniteSides(E) ==
    {S \in SourceSides(E) : \A e \in Crossing(E, S) : ~e.inf}

CutCapacity(E, S) ==
    LET X == Crossing(E, S) IN SumOver(X, [e \in X |-> e.capacity])

minimum_cut(E) ==
    LET V == Vertices(E)
        sides == FiniteSides(E)
        value == [S \in sides |-> CutCapacity(E, S)]
        least == CHOOSE v \in {value[S] : S \in sides} :
                    \A S \in sides : v <= value[S]
        best == {S \in sides : value[S] = least}
        non_reachable == {v \in V : \A S \in best : v \notin S}
    IN  IF Source \notin V \/ Sink \notin V \/ sides = {}
        THEN [ok |-> FALSE, cut_value |-> 0, reachable |-> {}, non_reachable |-> {}]
        ELSE [ok |-> TRUE,
              cut_value |-> least,
              reachable |-> V \ non_reachable,
              non_reachable |-> non_reachable]

\* The edges of the network from the reachable side to the other side.
CutSet(E, cut) == {e \in E : e.u \in cut.reachable /\ e.v \in cut.non_reachable}

\* assert node_in[:-3] == node_out[:-4]
DecodeAssertion(e) == e.u.side = "in" /\ e.v.side = "out" /\ e.u.n = e.v.n

cut_nodes(E, cut) == {e.u.n : e \in CutSet(E, cut)}

PruneSavedNothing(G, bwd_graph, saved_values) == saved_values

PruneSavedKeepUnused(G, bwd_graph, saved_values) ==
    LET unused == {bwd_graph.nodes[p].name :
                     p \in {q \in 1..Len(bwd_graph.nodes) :
                              bwd_graph.nodes[q].op = "placeholder"
                              /\ Users(bwd_graph, q) = {}}}
    IN  SelectSeq(saved_values, LAMBDA s : G.nodes[s].name \in unused)

\* The filter after the first extraction: a placeholder of the backward
\* graph without users takes the saved value of its name out of the list.
PruneSaved(G, bwd_graph, saved_values) ==
    LET unused == {bwd_graph.nodes[p].name :
                     p \in {q \in 1..Len(bwd_graph.nodes) :
                              bwd_graph.nodes[q].op = "placeholder"
                              /\ Users(bwd_graph, q) = {}}}
    IN  SelectSeq(saved_values, LAMBDA s : G.nodes[s].name \notin unused)

MinCutFailure(why) ==
    [ok |-> FALSE, why |-> why, fw |-> EmptyGraph, bw |-> EmptyGraph,
     saved |-> <<>>, cut_value |-> 0]

\* The first half of partition_with_recompute_fwd_in_bwd: the network, its
\* minimum cut, and the names decoded from the cut set.
DecodeCut(G, meta) ==
    LET E == FlowNetwork(G, meta)
        cut == minimum_cut(E)
    IN  IF ~cut.ok
        THEN [ok |-> FALSE, why |-> "NetworkXUnbounded", cut_nodes |-> {}, cut_value |-> 0,
              cutset |-> {}]
        ELSE IF \E e \in CutSet(E, cut) : ~DecodeAssertion(e)
        THEN [ok |-> FALSE, why |-> "AssertionError", cut_nodes |-> {}, cut_value |-> 0,
              cutset |-> CutSet(E, cut)]
        ELSE [ok |-> TRUE, why |-> "", cut_nodes |-> cut_nodes(E, cut),
              cut_value |-> cut.cut_value, cutset |-> CutSet(E, cut)]

\* The second half of partition_with_recompute_fwd_in_bwd, from the decoded
\* cut: `order` is the order in which the set cut_nodes is iterated when
\* saved_values is built.
ExtractPartition(G, num_fwd_outputs, cut, order) ==
    LET fwd_outputs == SubSeq(G.out, 1, num_fwd_outputs)
        bwd_outputs == SubSeq(G.out, num_fwd_outputs + 1, Len(G.out))
        fwd1 == ExtractGraph(G, primal_inputs(G), fwd_outputs \o order)
        bwd1 == ExtractGraph(G, order \o tangent_inputs(G), bwd_outputs)
        saved_values == PruneSaved(G, bwd1.graph, order)
        fwd2 == ExtractGraph(G, primal_inputs(G), fwd_outputs \o saved_values)
        bwd2 == ExtractGraph(G, saved_values \o tangent_inputs(G), bwd_outputs)
    IN  IF ~cut.ok THEN MinCutFailure(cut.why)
        ELSE IF ~(fwd1.ok /\ bwd1.ok /\ fwd2.ok /\ bwd2.ok)
        THEN MinCutFailure("AttributeError")
        ELSE [ok |-> TRUE, why |-> "", fw |-> fwd2.graph, bw |-> bwd2.graph,
              saved |-> saved_values, cut_value |-> cut.cut_value]

\* partition_with_recompute_fwd_in_bwd.  `meta` is the annotation ShapeProp
\* leaves on the nodes.
partition_with_recompute_fwd_in_bwd(G, num_fwd_outputs, meta, order) ==
    ExtractPartition(G, num_fwd_outputs, DecodeCut(G, meta), order)

\* ------------------------------------------------------------------- state
VARIABLES
    nodes,      \* the joint graph being traced: its node list
    out,        \* the joint graph's output arguments, forward results first
    numFwd,     \* _out_spec.children_specs[0].num_leaves
    phase,      \* "tracing", "traced", "partitioned", "extracted" or "reextracted"
    meta,       \* the annotation of the nodes the min-cut partitioner ran with
    part,       \* what the partitioner returned
    ex,         \* what a direct call of the extractor returned
    rex         \* what the extractor returned when called on the graph in ex

pvars == <<nodes, out, numFwd, phase, meta, part, ex, rex>>

\* The state of compiled_function's wrapper and of the closures it creates.
VARIABLES
    compile_cache,  \* the module's CompileCache: cache key -> cached_fn
    cached_fn,      \* returned_function's nonlocal, shared by every call
    closures,       \* per create_compiled_function call: compiled_fw, compiled_bw, num_outs
    arts,           \* what the compilers have returned so far
    pc,             \* each thread's position in returned_function / forward
    frame,          \* each thread's locals: the call's key, the closure it runs, fw_module
    ctx,            \* each thread's autograd context of its last forward
    bwcall,         \* each thread's last invocation of a backward artifact
    hist,           \* invocation counts per key and whether a call has raised
    fnspec,         \* per key: the function's number of outputs and of saved values
    threads,        \* the threads that call the wrapper
    cache_none      \* whether the global compile_cache is None

ovars == <<compile_cache, cached_fn, closures, arts, pc, frame, ctx, bwcall, hist,
           fnspec, threads, cache_none>>

vars == <<pvars, ovars>>

joint == [nodes |-> nodes, out |-> out]

NoMeta == <<>>

NoPartition ==
    [fn |-> "none", ok |-> FALSE, why |-> "", fw |-> EmptyGraph, bw |-> EmptyGraph,
     saved |-> <<>>, cut_value |-> 0, cutset |-> {}]

NoExtraction ==
    [called |-> FALSE, inputs |-> <<>>, outputs |-> <<>>, ok |-> FALSE,
     graph |-> EmptyGraph]

TraceInit ==
    /\ nodes = <<>>
    /\ out = <<>>
    /\ numFwd = 0
    /\ phase = "tracing"
    /\ meta = NoMeta
    /\ part = NoPartition
    /\ ex = NoExtraction
    /\ rex = NoExtraction

\* Python's None, for a variable that otherwise holds an index.
None == 0

Keys == 1..MaxKeys

Threads == 1..MaxThreads

\* compiled_fw, compiled_bw and num_outs of a fresh closure.
NewClosure == [compiled_fw |-> None, compiled_bw |-> None, num_outs |-> None]

NoFrame == [key |-> None, fn |-> None, nsaved |-> 0]

NoCtx == [fn |-> None, raw |-> <<>>, saved_tensors |-> <<>>, returned |-> <<>>]

NoBwCall == [art |-> None, args |-> <<>>, raw |-> <<>>]

NoHistory ==
    [fw |-> [k \in Keys |-> 0], bw |-> [k \in Keys |-> 0],
     partitions |-> [k \in Keys |-> 0], runs |-> [k \in Keys |-> 0],
     completed |-> [k \in Keys |-> 0], started |-> 0,
     failed |-> FALSE, reassigned |-> FALSE, broken |-> {},
     attribute_error |-> FALSE, cleared |-> {}]

\* compiled_function(fn, fw_compiler, bw_compiler) has returned the wrapper:
\* the cache is empty and cached_fn is None.
WrapperInit(T) ==
    /\ compile_cache = [k \in Keys |-> None]
    /\ cached_fn = None
    /\ closures = <<>>
    /\ arts = <<>>
    /\ pc = [t \in Threads |-> "idle"]
    /\ frame = [t \in Threads |-> NoFrame]
    /\ ctx = [t \in Threads |-> NoCtx]
    /\ bwcall = [t \in Threads |-> NoBwCall]
    /\ hist = NoHistory
    /\ threads = T
    /\ cache_none = FALSE

\* A function of one output whose forward graph saves one value, whatever
\* the key.
PlainFn == [k \in Keys |-> [outs |-> 1, saved |-> 1]]

\* No thread calls a wrapper while a joint graph is traced and partitioned.
Init ==
    /\ TraceInit
    /\ WrapperInit({})
    /\ fnspec = PlainFn

\* ------------------------------------------------- tracing the joint graph
\* make_fx(joint_forward_backward)(primals, tangents) records the primal
\* placeholders, then the tangent placeholders, then the operations in the
\* order they run; an operation reads values recorded before it.
Targets == {"aten.mul", "aten.bmm"}

TracePlaceholder(target) ==
    /\ phase = "tracing"
    /\ Len(nodes) < MaxNodes
    /\ \A i \in 1..Len(nodes) : nodes[i].op = "placeholder"
    /\ target = "primals" => \A i \in 1..Len(nodes) : nodes[i].target = "primals"
    /\ target = "tangents" => nodes # <<>>
    /\ nodes' = Append(nodes, Placeholder(target, Len(nodes) + 1))
    /\ UNCHANGED <<out, numFwd, phase, meta, part, ex, rex, ovars>>

\* The argument lists of a recorded operation over the first n nodes.  The
\* partitioners and the extractor visit an operation's arguments one by one
\* and treat them alike whatever their positions and however often a node
\* occurs, so one list per set of arguments is traced: the one in node order.
ArgLists(n) ==
    {a \in SeqsUpTo(1..n, MaxArity) : \A j \in 1..(Len(a) - 1) : a[j] < a[j + 1]}

HasTangent == \E i \in 1..Len(nodes) : is_tangent(nodes[i])

TraceCall(target, args) ==
    /\ phase = "tracing"
    /\ Len(nodes) < MaxNodes
    /\ HasTangent
    /\ nodes' = Append(nodes, CallFunction(target, args, Len(nodes) + 1))
    /\ UNCHANGED <<out, numFwd, phase, meta, part, ex, rex, ovars>>

TraceGetAttr ==
    /\ phase = "tracing"
    /\ Len(nodes) < MaxNodes
    /\ HasTangent
    /\ nodes' = Append(nodes, GetAttr(Len(nodes) + 1))
    /\ UNCHANGED <<out, numFwd, phase, meta, part, ex, rex, ovars>>

\* --------------------------------------------------------- the operations
ForwardNodes == (1..Len(nodes)) \ tangent_closure([nodes |-> nodes, out |-> <<>>])

BackwardNodes == (1..Len(nodes)) \cap tangent_closure([nodes |-> nodes, out |-> <<>>])

\* The traced function returns (out, backward_out): one tangent was fed per
\* forward output, forward outputs do not depend on a tangent, and every
\* gradient does.
TraceOutput ==
    /\ phase = "tracing"
    /\ HasTangent
    /\ \E fwd \in [1..Len(tangent_inputs([nodes |-> nodes, out |-> <<>>])) -> ForwardNodes] :
         \E bwd \in SeqsUpTo(BackwardNodes, MaxBwdOutputs) :
            /\ out' = fwd \o bwd
            /\ numFwd' = Len(fwd)
    /\ phase' = "traced"
    /\ UNCHANGED <<nodes, meta, part, ex, rex, ovars>>

DefaultPartition ==
    /\ phase = "traced"
    /\ \E order \in Orders(ClassifyAll(joint).saved_nodes) :
         part' = [fn |-> "default", why |-> "", cut_value |-> 0, cutset |-> {}]
                    @@ default_partition(joint, numFwd, order)
    /\ phase' = "partitioned"
    /\ UNCHANGED <<nodes, out, numFwd, meta, ex, rex, ovars>>

\* The annotations ShapeProp can leave: a placeholder is a tensor; the
\* partitioner never reads the annotation of a node of the tangent closure,
\* which is left at one value here.
Metas ==
    LET closure == tangent_closure(joint)
        tensors == {[tensor |-> TRUE, nbytes |-> b] : b \in 0..MaxSize}
        choices(i) ==
            IF i \in closure THEN {[tensor |-> TRUE, nbytes |-> 1]}
            ELSE IF nodes[i].op = "placeholder" THEN tensors
            ELSE tensors \cup {[tensor |-> FALSE, nbytes |-> 0]}
    IN  {m \in [1..Len(nodes) -> tensors \cup {[tensor |-> FALSE, nbytes |-> 0]}] :
            \A i \in 1..Len(nodes) : m[i] \in choices(i)}

MinCutPartition ==
    /\ phase = "traced"
    /\ \E m \in Metas :
         LET cut == DecodeCut(joint, m) IN
         \E order \in Orders(cut.cut_nodes) :
            /\ meta' = m
            /\ part' = [fn |-> "mincut", cutset |-> cut.cutset]
                          @@ ExtractPartition(joint, numFwd, cut, order)
    /\ phase' = "partitioned"
    /\ UNCHANGED <<nodes, out, numFwd, ex, rex, ovars>>

\* A direct call of the extractor on the graph recorded so far (it passes
\* over the output node), with any list of distinct nodes as inputs and any
\* nodes as outputs.
Extract ==
    /\ phase = "tracing"
    /\ HasTangent
    /\ \E inputs \in UNION {Orders(S) : S \in {T \in SUBSET (1..Len(nodes)) :
                                                 Cardinality(T) <= MaxInputs}} :
         \E outputs \in SeqsUpTo(1..Len(nodes), MaxOutputs) :
            ex' = [called |-> TRUE, inputs |-> inputs, outputs |-> outputs]
                     @@ ExtractGraph(joint, inputs, outputs)
    /\ phase' = "extracted"
    /\ UNCHANGED <<nodes, out, numFwd, meta, part, rex, ovars>>

\* The extractor called on a graph it has returned, with that graph's
\* placeholders as the inputs and its output arguments as the outputs.
ReExtract ==
    /\ phase = "extracted"
    /\ ex.ok
    /\ LET inputs == GraphPlaceholders(ex.graph)
           outputs == ex.graph.out
       IN  rex' = [called |-> TRUE, inputs |-> inputs, outputs |-> outputs]
                     @@ ExtractGraph(ex.graph, inputs, outputs)
    /\ phase' = "reextracted"
    /\ UNCHANGED <<nodes, out, numFwd, meta, part, ex, ovars>>

Next ==
    \/ \E t \in {"primals", "tangents"} : TracePlaceholder(t)
    \/ \E t \in Targets : \E a \in ArgLists(Len(nodes)) : TraceCall(t, a)
    \/ TraceGetAttr
    \/ TraceOutput
    \/ DefaultPartition
    \/ MinCutPartition
    \/ Extract
    \/ ReExtract

Spec == Init /\ [][Next]_vars

\* ------------------------------------------- the compiled-function wrapper
\* CompileCache.at and CompileCache.insert: one entry per cache key
\* (function identity, argument count, shape fingerprint of the arguments).
CacheAt(cache, key) == cache[key]

CacheInsert(cache, key, fn) == [cache EXCEPT ![key] = fn]

Bump(h, field, k) == [h EXCEPT ![field][k] = @ + 1]

Raised(h) == [h EXCEPT !.failed = TRUE]

\* The closures whose last compilation ended in an exception.
Broke(h, c) == [h EXCEPT !.broken = @ \cup {c}]

Mended(h, c) == [h EXCEPT !.broken = @ \ {c}]

\* What a forward artifact returns: the forward outputs of the graph it
\* was compiled from, then the values that graph saves.
FwOutputs(a) ==
    [j \in 1..(arts[a].nouts + arts[a].nsaved) |-> [src |-> "fw", art |-> a, pos |-> j]]

\* The gradients autograd hands to backward, one per returned output.
GradOutputs(n) == [j \in 1..n |-> [src |-> "grad", art |-> None, pos |-> j]]

\* fw_outs[num_outs:] and fw_outs[0:num_outs]
SliceFrom(s, n) == SubSeq(s, n + 1, Len(s))

SliceTo(s, n) == SubSeq(s, 1, IF n < Len(s) THEN n ELSE Len(s))

BackwardArgsGradsFirst(saved_tensors, flat_args) == flat_args \o saved_tensors

MustCompileAlways(c) == closures[c].compiled_fw = closures[c].compiled_fw

\* ctx.save_for_backward(*fw_outs[num_outs:])
SavedForBackward(fw_outs, num_outs) == SliceFrom(fw_outs, num_outs)

\* compiled_bw(*ctx.saved_tensors, *contiguous_args)
BackwardArgs(saved_tensors, flat_args) == saved_tensors \o flat_args

\* forward's test before it traces, partitions and compiles.
MustCompile(c) == closures[c].compiled_fw = None

\* cached_fn = compile_cache.at(fn_id, num_args, hasher_type, *flattened_args)
Lookup(t, k) ==
    /\ pc[t] \in {"idle", "returned"}
    /\ hist.started < MaxCalls
    /\ IF cache_none
       THEN \* AttributeError: 'NoneType' object has no attribute 'at'
            /\ hist' = [hist EXCEPT !.started = @ + 1, !.attribute_error = TRUE]
            /\ pc' = [pc EXCEPT ![t] = "idle"]
            /\ UNCHANGED <<cached_fn, frame>>
       ELSE /\ cached_fn' = CacheAt(compile_cache, k)
            /\ frame' = [frame EXCEPT ![t] = [NoFrame EXCEPT !.key = k]]
            /\ hist' = [hist EXCEPT !.started = @ + 1]
            /\ pc' = [pc EXCEPT ![t] = "looked"]
    /\ UNCHANGED <<compile_cache, closures, arts, ctx, bwcall, fnspec, threads, cache_none,
                   pvars>>

\* if cached_fn is None:
TestCached(t) ==
    /\ pc[t] = "looked"
    /\ pc' = [pc EXCEPT ![t] = IF cached_fn = None THEN "miss" ELSE "call"]
    /\ UNCHANGED <<compile_cache, cached_fn, closures, arts, frame, ctx, bwcall, hist,
                   fnspec, threads, cache_none, pvars>>

\* cached_fn = create_compiled_function(flat_fn, ...).apply
Create(t) ==
    /\ pc[t] = "miss"
    /\ closures' = Append(closures, NewClosure)
    /\ cached_fn' = Len(closures) + 1
    /\ pc' = [pc EXCEPT ![t] = "insert"]
    /\ UNCHANGED <<compile_cache, arts, frame, ctx, bwcall, hist, fnspec, threads,
                   cache_none, pvars>>

\* compile_cache.insert(fn_id, num_args, hasher_type, cached_fn, *flattened_args)
Insert(t) ==
    /\ pc[t] = "insert"
    /\ compile_cache' = CacheInsert(compile_cache, frame[t].key, cached_fn)
    /\ hist' = [hist EXCEPT !.cleared = @ \ {frame[t].key}]
    /\ pc' = [pc EXCEPT ![t] = "call"]
    /\ UNCHANGED <<cached_fn, closures, arts, frame, ctx, bwcall, fnspec, threads,
                   cache_none, pvars>>

\* return cached_fn(*flattened_args), up to the call of fw_compiler: when
\* compiled_fw is None the function is run, num_outs is set, the joint graph
\* is traced and partition_fn is called.
Enter(t) ==
    /\ pc[t] = "call"
    /\ LET c == cached_fn
           k == frame[t].key
       IN IF c = None
          THEN /\ pc' = [pc EXCEPT ![t] = "idle"]
               /\ hist' = Raised(hist)
               /\ UNCHANGED <<closures, frame>>
          ELSE IF MustCompile(c)
          THEN /\ closures' = [closures EXCEPT ![c].num_outs = fnspec[k].outs]
               /\ frame' = [frame EXCEPT ![t].fn = c, ![t].nsaved = fnspec[k].saved]
               /\ hist' = Bump(hist, "partitions", k)
               /\ pc' = [pc EXCEPT ![t] = "fw_compile"]
          ELSE /\ frame' = [frame EXCEPT ![t].fn = c]
               /\ pc' = [pc EXCEPT ![t] = "run"]
               /\ UNCHANGED <<closures, hist>>
    /\ UNCHANGED <<compile_cache, cached_fn, arts, ctx, bwcall, fnspec, threads,
                   cache_none, pvars>>

\* compiled_fw = fw_compiler(fw_module, flat_args)
FwCompile(t) ==
    /\ pc[t] = "fw_compile"
    /\ LET c == frame[t].fn
           k == frame[t].key
       IN /\ arts' = Append(arts, [kind |-> "fw", nouts |-> fnspec[k].outs,
                                   nsaved |-> frame[t].nsaved])
          /\ closures' = [closures EXCEPT ![c].compiled_fw = Len(arts) + 1]
          /\ hist' = [Bump(hist, "fw", k) EXCEPT
                         !.reassigned = @ \/ closures[c].compiled_fw # None]
    /\ pc' = [pc EXCEPT ![t] = "bw_compile"]
    /\ UNCHANGED <<compile_cache, cached_fn, frame, ctx, bwcall, fnspec, threads,
                   cache_none, pvars>>

\* fw_compiler raises: the exception leaves forward and the wrapper.
FwCompilerRaises(t) ==
    /\ pc[t] = "fw_compile"
    /\ hist' = Broke(Raised(Bump(hist, "fw", frame[t].key)), frame[t].fn)
    /\ pc' = [pc EXCEPT ![t] = "idle"]
    /\ UNCHANGED <<compile_cache, cached_fn, closures, arts, frame, ctx, bwcall, fnspec,
                   threads, cache_none, pvars>>

\* fw_outs = compiled_fw(*flat_args); compiled_bw = bw_compiler(bw_module, bw_args)
BwCompile(t) ==
    /\ pc[t] = "bw_compile"
    /\ LET c == frame[t].fn
           k == frame[t].key
       IN /\ arts' = Append(arts, [kind |-> "bw", nouts |-> fnspec[k].outs,
                                   nsaved |-> frame[t].nsaved])
          /\ closures' = [closures EXCEPT ![c].compiled_bw = Len(arts) + 1]
          /\ hist' = [Mended(Bump(Bump(hist, "runs", k), "bw", k), c) EXCEPT
                         !.reassigned = @ \/ closures[c].compiled_bw # None]
    /\ pc' = [pc EXCEPT ![t] = "run"]
    /\ UNCHANGED <<compile_cache, cached_fn, frame, ctx, bwcall, fnspec, threads,
                   cache_none, pvars>>

\* bw_compiler raises, after compiled_fw has been assigned and run.
BwCompilerRaises(t) ==
    /\ pc[t] = "bw_compile"
    /\ hist' = Broke(Raised(Bump(Bump(hist, "runs", frame[t].key), "bw", frame[t].key)),
                     frame[t].fn)
    /\ pc' = [pc EXCEPT ![t] = "idle"]
    /\ UNCHANGED <<compile_cache, cached_fn, closures, arts, frame, ctx, bwcall, fnspec,
                   threads, cache_none, pvars>>

\* fw_outs = compiled_fw(*flat_args); ctx.save_for_backward(*fw_outs[num_outs:]);
\* return fw_outs[0:num_outs]
RunForward(t) ==
    /\ pc[t] = "run"
    /\ LET c == frame[t].fn
           fw_outs == FwOutputs(closures[c].compiled_fw)
           num_outs == closures[c].num_outs
       IN ctx' = [ctx EXCEPT ![t] =
                    [fn |-> c, raw |-> fw_outs,
                     saved_tensors |-> SavedForBackward(fw_outs, num_outs),
                     returned |-> SliceTo(fw_outs, num_outs)]]
    /\ hist' = Bump(Bump(hist, "runs", frame[t].key), "completed", frame[t].key)
    /\ pc' = [pc EXCEPT ![t] = "returned"]
    /\ UNCHANGED <<compile_cache, cached_fn, closures, arts, frame, bwcall, fnspec,
                   threads, cache_none, pvars>>

\* backward(ctx, *flat_args): compiled_bw(*ctx.saved_tensors, *contiguous_args)
Backward(t) ==
    /\ pc[t] = "returned"
    /\ LET b == closures[ctx[t].fn].compiled_bw
           flat_args == GradOutputs(Len(ctx[t].returned))
       IN IF b = None
          THEN /\ hist' = Raised(hist)
               /\ UNCHANGED bwcall
          ELSE /\ bwcall' = [bwcall EXCEPT ![t] =
                               [art |-> b, raw |-> ctx[t].raw,
                                args |-> BackwardArgs(ctx[t].saved_tensors, flat_args)]]
               /\ UNCHANGED hist
    /\ pc' = [pc EXCEPT ![t] = "idle"]
    /\ UNCHANGED <<compile_cache, cached_fn, closures, arts, frame, ctx, fnspec, threads,
                   cache_none,
                   pvars>>

WrapperNext ==
    \/ \E t \in threads : \E k \in Keys : Lookup(t, k)
    \/ \E t \in threads : TestCached(t)
    \/ \E t \in threads : Create(t)
    \/ \E t \in threads : Insert(t)
    \/ \E t \in threads : Enter(t)
    \/ \E t \in threads : FwCompile(t)
    \/ \E t \in threads : FwCompilerRaises(t)
    \/ \E t \in threads : BwCompile(t)
    \/ \E t \in threads : BwCompilerRaises(t)
    \/ \E t \in threads : RunForward(t)
    \/ \E t \in threads : Backward(t)

FnSpecs == [Keys -> [outs : 1..MaxOuts, saved : 0..MaxSaved]]

\* One thread calls the wrapper again and again.
SeqInit ==
    /\ TraceInit
    /\ WrapperInit({1})
    /\ fnspec \in FnSpecs

SpecSeq == SeqInit /\ [][WrapperNext]_vars

\* Every thread calls the same wrapper.
ConcInit ==
    /\ TraceInit
    /\ WrapperInit(Threads)
    /\ fnspec = PlainFn

SpecConc == ConcInit /\ [][WrapperNext]_vars

\* Every thread is outside the wrapper: the program is between two calls.
BetweenCalls == \A t \in threads : pc[t] \in {"idle", "returned"}

\* clear_compile_cache(): compile_cache.clear(), then compile_cache = None.
\* hist.cleared records the keys not compiled since.
clear_compile_cache ==
    /\ BetweenCalls
    /\ ~cache_none
    /\ compile_cache' = [k \in Keys |-> None]
    /\ cache_none' = TRUE
    /\ hist' = [hist EXCEPT !.cleared = Keys]
    /\ UNCHANGED <<cached_fn, closures, arts, pc, frame, ctx, bwcall, fnspec, threads,
                   pvars>>

\* compiled_function(...) called for another wrapper, which this model does
\* not call: if compile_cache is None: compile_cache = CompileCache().
compiled_function ==
    /\ BetweenCalls
    /\ cache_none
    /\ compile_cache' = [k \in Keys |-> None]
    /\ cache_none' = FALSE
    /\ UNCHANGED <<cached_fn, closures, arts, pc, frame, ctx, bwcall, hist, fnspec,
                   threads, pvars>>

\* num_of_recompilations(): 0 without a cache, else compile_cache.size().
num_of_recompilations ==
    IF cache_none THEN 0 ELSE Cardinality({k \in Keys : compile_cache[k] # None})

ResetNext ==
    \/ WrapperNext
    \/ clear_compile_cache
    \/ compiled_function

\* One thread calls the wrapper, resets the cache and builds other wrappers.
ResetInit ==
    /\ TraceInit
    /\ WrapperInit({1})
    /\ fnspec = PlainFn

SpecReset == ResetInit /\ [][ResetNext]_vars

\* ------------------------------------------------------------ recomposition
PrimalValues(G) ==
    [k \in 1..Len(primal_inputs(G)) |->
        LET i == primal_inputs(G)[k] IN Leaf(G.nodes[i].target, G.nodes[i].name)]

TangentValues(G) ==
    [k \in 1..Len(tangent_inputs(G)) |->
        LET i == tangent_inputs(G)[k] IN Leaf(G.nodes[i].target, G.nodes[i].name)]

JointValues(G, ids) == [k \in 1..Len(ids) |-> JointValue(G, ids[k])]

\* Run fw on the primals, feed its outputs after position n and then the
\* tangents to bw: the forward and the backward outputs are the joint graph's.
Recomposes(G, n, fw, bw) ==
    /\ Len(GraphPlaceholders(fw)) = Len(primal_inputs(G))
    /\ Len(fw.out) >= n
    /\ LET fwVals == RunGraph(fw, PrimalValues(G))
           extras == SubSeq(fwVals, n + 1, Len(fwVals))
       IN  /\ SubSeq(fwVals, 1, n) = JointValues(G, SubSeq(G.out, 1, n))
           /\ Len(GraphPlaceholders(bw)) = Len(extras) + Len(tangent_inputs(G))
           /\ RunGraph(bw, extras \o TangentValues(G))
                 = JointValues(G, SubSeq(G.out, n + 1, Len(G.out)))

C1_RecomposesWhenReturned ==
    part.fn = "default" /\ part.ok => Recomposes(joint, numFwd, part.fw, part.bw)

\* C2: for every joint graph with a finite minimum cut, the min-cut
\* partitioner returns a pair; its forward graph computes from the primals
\* the forward outputs followed by the pruned saved values, and its backward
\* graph computes from those saved values followed by the tangents the
\* joint graph's backward outputs.
C2_MinCutRecomposes ==
    part.fn = "mincut" /\ part.why # "NetworkXUnbounded" =>
        /\ part.ok
        /\ Recomposes(joint, numFwd, part.fw, part.bw)
        /\ RunGraph(part.fw, PrimalValues(joint))
              = JointValues(joint, SubSeq(out, 1, numFwd) \o part.saved)
        /\ [k \in 1..Len(GraphPlaceholders(part.bw)) |->
               part.bw.nodes[GraphPlaceholders(part.bw)[k]].name]
              = [k \in 1..(Len(part.saved) + Len(tangent_inputs(joint))) |->
                   nodes[(part.saved \o tangent_inputs(joint))[k]].name]

\* A min-cut partition whose backward graph recomputes a forward operation
\* from a saved value.
C2_Witness ==
    /\ part.fn = "mincut" /\ part.ok /\ Len(part.saved) >= 1
    /\ \E k \in 1..Len(part.bw.nodes) :
          /\ part.bw.nodes[k].op = "call_function"
          /\ part.bw.nodes[k].name \in ForwardNodes

\* Node i of G cannot be computed from the list `inputs`: it is not in the
\* list and is a placeholder, or an operation with such an argument.
RECURSIVE MapsToInvalid(_, _, _)
MapsToInvalid(G, inputs, i) ==
    /\ i \notin Range(inputs)
    /\ \/ G.nodes[i].op = "placeholder"
       \/ /\ G.nodes[i].op = "call_function"
          /\ \E a \in Range(G.nodes[i].args) : MapsToInvalid(G, inputs, a)

\* C7: the extractor fails exactly when some requested output maps to
\* Invalid, and returns a graph when every output is computable from the
\* input list.
C7_ExtractFailsIffInvalid ==
    ex.called =>
        (ex.ok <=> \A k \in 1..Len(ex.outputs) :
                      ~MapsToInvalid(joint, ex.inputs, ex.outputs[k]))

\* An extraction that fails on an operation reaching a missing placeholder
\* only through another operation.
C7_Witness ==
    /\ ex.called /\ ~ex.ok
    /\ \E k \in 1..Len(ex.outputs) :
          /\ nodes[ex.outputs[k]].op = "call_function"
          /\ \A a \in Range(nodes[ex.outputs[k]].args) :
                nodes[a].op = "call_function" \/ a \in Range(ex.inputs)

\* The argument positions of the extracted graph that read placeholder k.
ReadsOf(g, k) ==
    {<<m, j>> \in (1..Len(g.nodes)) \X (1..MaxArity) :
        j <= Len(g.nodes[m].args) /\ g.nodes[m].args[j] = k}

\* C8: the extracted graph has one placeholder per member of the input
\* list, in the order of the list, and every reference to an input-list
\* node reads that member's placeholder.
C8_PlaceholdersFollowInputs ==
    ex.called /\ ex.ok =>
        LET g == ex.graph IN
        /\ GraphPlaceholders(g) = [k \in 1..Len(ex.inputs) |-> k]
        /\ \A k \in 1..Len(ex.inputs) : g.nodes[k].name = nodes[ex.inputs[k]].name
        /\ \A m \in 1..Len(g.nodes) :
              g.nodes[m].op = "call_function" =>
                 LET src == nodes[g.nodes[m].name] IN
                 /\ Len(g.nodes[m].args) = Len(src.args)
                 /\ \A j \in 1..Len(src.args) :
                       src.args[j] \in Range(ex.inputs) =>
                          g.nodes[m].args[j] = IndexOf(ex.inputs, src.args[j])
        /\ \A k \in 1..Len(ex.outputs) :
              ex.outputs[k] \in Range(ex.inputs) =>
                 g.out[k] = IndexOf(ex.inputs, ex.outputs[k])

\* An extraction whose input list is not in topological order and one of
\* whose inputs is read twice.
C8_Witness ==
    /\ ex.called /\ ex.ok
    /\ Len(ex.inputs) = 2 /\ ex.inputs[1] > ex.inputs[2]
    /\ \E k \in 1..Len(ex.inputs) : Cardinality(ReadsOf(ex.graph, k)) >= 2

\* The number of saved values of the partition in `part`.
NumSaved ==
    IF part.fn = "default" THEN Cardinality(ClassifyAll(joint).saved_nodes)
    ELSE Len(part.saved)

\* C9: in the pair either partitioner returns, the forward graph has
\* num_fwd_outputs + |saved| outputs, forward results first, and the
\* backward graph's placeholders are the saved values in the order of the
\* extra forward outputs, followed by the tangents.
C9_SavedThreadedPositionally ==
    part.ok =>
        LET fw == part.fw
            bw == part.bw
            ph == GraphPlaceholders(bw)
            tang == tangent_inputs(joint)
        IN  /\ Len(fw.out) = numFwd + NumSaved
            /\ \A k \in 1..numFwd :
                  EvalNode(fw, PrimalValues(joint), fw.out[k]) = JointValue(joint, out[k])
            /\ Len(ph) = NumSaved + Len(tang)
            /\ \A k \in 1..NumSaved :
                  /\ bw.nodes[ph[k]].name = fw.nodes[fw.out[numFwd + k]].name
                  /\ EvalNode(fw, PrimalValues(joint), fw.out[numFwd + k])
                        = JointValue(joint, bw.nodes[ph[k]].name)
            /\ \A k \in 1..Len(tang) :
                  bw.nodes[ph[NumSaved + k]].name = nodes[tang[k]].name

\* A partition with two saved values.
C9_Witness == part.ok /\ NumSaved >= 2

RECURSIVE DependsOn(_, _, _)
DependsOn(G, i, S) ==
    i \in S \/ \E a \in Range(G.nodes[i].args) : DependsOn(G, a, S)

\* A recomputable operation lies between a primal and a backward node.
HasRecomputableOp ==
    \E x \in ForwardNodes :
        /\ nodes[x].op = "call_function"
        /\ nodes[x].target \notin not_recomputable_ops
        /\ DependsOn(joint, x, Range(primal_inputs(joint)))
        /\ \E b \in BackwardNodes : DependsOn(joint, b, {x})

SavedBytes(S, m) ==
    SumOver(S, [i \in S |-> IF m[i].tensor THEN m[i].nbytes ELSE 0])

\* C10: the saved values of the min-cut partitioner total at most the
\* bytes of the saved values of the simple partitioner on the same graph
\* and annotation, when a recomputable operation lies between a primal and
\* the backward nodes.
C10_MinCutSavesNoMore ==
    part.fn = "mincut" /\ part.ok /\ HasRecomputableOp =>
        SavedBytes(Range(part.saved), meta)
            <= SavedBytes(ClassifyAll(joint).saved_nodes, meta)

\* The same, on annotations in which every value is a tensor.
C10_OnTensors ==
    part.fn = "mincut" /\ part.ok /\ HasRecomputableOp
        /\ (\A i \in 1..Len(nodes) : meta[i].tensor) =>
        SavedBytes(Range(part.saved), meta)
            <= SavedBytes(ClassifyAll(joint).saved_nodes, meta)

\* ------------------------------------------------------ the wrapper's claims
Compilations(k) == <<hist.partitions[k], hist.fw[k], hist.bw[k]>>

\* C3: in a run of one thread in which no call has raised, the partitioner
\* and each compiler are invoked at most once per key and exactly once as
\* soon as a call with the key has returned; the forward artifact is run
\* twice by the compiling call and once by every other call; no artifact is
\* assigned a second time.
C3_CompiledOncePerKey ==
    ~hist.failed =>
        /\ ~hist.reassigned
        /\ \A k \in Keys :
              /\ \A i \in 1..3 : Compilations(k)[i] <= 1
              /\ hist.completed[k] >= 1 =>
                    /\ Compilations(k) = <<1, 1, 1>>
                    /\ hist.runs[k] = hist.completed[k] + 1

C3_Witness ==
    /\ ~hist.failed
    /\ \E k \in Keys : hist.completed[k] >= 2
    /\ \E k \in Keys : hist.completed[k] = 1

InFlight(k) ==
    Cardinality({t \in Threads : pc[t] \in {"fw_compile", "bw_compile"}
                                   /\ frame[t].key = k})

\* C4: while no call has raised, at most one thread is between the
\* compiled_fw test and the end of bw_compiler for a key, and each compiler
\* has been invoked at most once for the key.
C4_OneCompilationPerKey ==
    ~hist.failed =>
        \A k \in Keys : /\ InFlight(k) <= 1
                         /\ hist.fw[k] <= 1
                         /\ hist.bw[k] <= 1

\* C5: a closure whose compilation raised holds no artifact, and a call that
\* returns leaves the closure it ran with both artifacts.
C5_FailureLeavesUncompiled ==
    /\ \A c \in hist.broken : /\ closures[c].compiled_fw = None
                               /\ closures[c].compiled_bw = None
    /\ \A t \in Threads :
          pc[t] = "returned" => /\ closures[ctx[t].fn].compiled_fw # None
                                /\ closures[ctx[t].fn].compiled_bw # None

AfterNumOuts(raw, n) == SelectSeq(raw, LAMBDA v : v.pos > n)

UpToNumOuts(raw, n) == SelectSeq(raw, LAMBDA v : v.pos <= n)

\* C6: a call that has returned returned the first num_outs outputs of the
\* forward artifact and stashed the others in order; a backward artifact was
\* invoked with the stashed values in order and then the gradients.
C6_ReturnsAndStashes ==
    \A t \in Threads :
        /\ pc[t] = "returned" =>
              LET n == closures[ctx[t].fn].num_outs
              IN /\ Len(ctx[t].returned) = n
                 /\ ctx[t].returned = UpToNumOuts(ctx[t].raw, n)
                 /\ ctx[t].saved_tensors = AfterNumOuts(ctx[t].raw, n)
        /\ (pc[t] = "idle" /\ bwcall[t].art # None /\ bwcall[t].raw = ctx[t].raw) =>
              LET n == closures[ctx[t].fn].num_outs
              IN /\ bwcall[t].art = closures[ctx[t].fn].compiled_bw
                 /\ bwcall[t].args = AfterNumOuts(ctx[t].raw, n) \o GradOutputs(n)

C6_Witness ==
    \E t \in Threads :
        /\ pc[t] = "idle"
        /\ bwcall[t].art # None
        /\ bwcall[t].raw = ctx[t].raw
        /\ Len(bwcall[t].args) = 3
        /\ Len(ctx[t].returned) = 2
        /\ hist.completed[frame[t].key] >= 2

\* ------------------------------------------------- the min-cut partitioner
UnusedPlaceholders(g) ==
    {p \in Range(GraphPlaceholders(g)) : Users(g, p) = {}}

\* C11 as stated: no placeholder of the backward graph the min-cut
\* partitioner returns is without users, saved values and tangents alike.
C11_NoUnusedPlaceholder ==
    (part.fn = "mincut" /\ part.ok) => UnusedPlaceholders(part.bw) = {}

\* C11 amended: no saved-value placeholder of the backward graph the min-cut
\* partitioner returns is without users; a tangent placeholder may be.
C11_NoUnusedSavedValue ==
    (part.fn = "mincut" /\ part.ok) =>
        \A p \in UnusedPlaceholders(part.bw) : is_tangent(part.bw.nodes[p])

\* The filter took a cut node out of the saved values and left another in.
C11_Witness ==
    /\ part.fn = "mincut" /\ part.ok
    /\ Len(part.saved) >= 1
    /\ Len(part.saved) < Cardinality({e.u.n : e \in part.cutset})

\* ---------------------------------------------------------- re-extraction
\* C12: extracting from an extracted graph, with its own placeholders and
\* its own output arguments, succeeds and returns a graph with the same
\* number of nodes, the same operations and the same argument wiring.
C12_ReExtractionIdempotent ==
    rex.called =>
        /\ rex.ok
        /\ Len(rex.graph.nodes) = Len(ex.graph.nodes)
        /\ \A i \in 1..Len(ex.graph.nodes) :
              /\ rex.graph.nodes[i].op = ex.graph.nodes[i].op
              /\ rex.graph.nodes[i].target = ex.graph.nodes[i].target
              /\ rex.graph.nodes[i].args = ex.graph.nodes[i].args
        /\ rex.graph.out = ex.graph.out

\* A re-extraction of a graph with two placeholders, one of them unused,
\* and an operation, from a source graph that lost a node to dead-code
\* elimination.
C12_Witness ==
    /\ rex.called /\ rex.ok
    /\ Len(GraphPlaceholders(ex.graph)) = 2
    /\ UnusedPlaceholders(ex.graph) # {}
    /\ \E i \in 1..Len(ex.graph.nodes) : ex.graph.nodes[i].op = "call_function"
    /\ Len(ex.graph.nodes) < Len(nodes)

\* ------------------------------------------- the simple partitioner's colours
\* The nodes the rule "a tangent placeholder, or a node with an argument
\* already classified backward-reachable" classifies, among the first i.
RECURSIVE BackwardReachableUpTo(_, _)
BackwardReachableUpTo(G, i) ==
    IF i = 0 THEN {}
    ELSE LET B == BackwardReachableUpTo(G, i - 1) IN
         IF is_tangent(G.nodes[i]) \/ \E a \in Range(G.nodes[i].args) : a \in B
         THEN B \cup {i} ELSE B

\* C13: the simple partitioner colours exactly the tangent placeholders and
\* the nodes with a coloured argument; the operations of the backward graph
\* it returns are such nodes and those of the forward graph are not.
C13_ColouredIffBackwardReachable ==
    part.fn = "default" =>
        LET B == BackwardReachableUpTo(joint, Len(nodes)) IN
        /\ ClassifyAll(joint).bw_nodes = B
        /\ part.ok =>
              /\ \A k \in 1..Len(part.bw.nodes) :
                    part.bw.nodes[k].op # "placeholder" => part.bw.nodes[k].name \in B
              /\ \A k \in 1..Len(part.fw.nodes) : part.fw.nodes[k].name \notin B

\* ------------------------------------------------- the minimum cut's claims
\* The minimum cut was computed: the network has a source and a finite cut.
CutComputed == part.fn = "mincut" /\ part.why # "NetworkXUnbounded"

CutNodes == {e.u.n : e \in part.cutset}

Closure == tangent_closure(joint)

\* C14: every edge of the cut set is the in->out edge of one node, has a
\* finite capacity, and the decoding assertion does not fail.
C14_CutOnlyInOutEdges ==
    CutComputed =>
        /\ part.why # "AssertionError"
        /\ \A e \in part.cutset :
              /\ e.u # Source /\ e.v # Sink
              /\ e.u.side = "in" /\ e.v.side = "out" /\ e.u.n = e.v.n
              /\ ~e.inf

\* A cut set of two edges in a graph that has a pinned operation.
C14_Witness ==
    /\ CutComputed
    /\ Cardinality(part.cutset) = 2
    /\ \E i \in 1..Len(nodes) : i \notin Closure /\ nodes[i].target \in not_recomputable_ops

\* C15: a node annotated as no tensor is not in the decoded cut and is not
\* a saved value, and its in->out edge has infinite capacity.
C15_NonTensorNeverSaved ==
    part.fn = "mincut" =>
        /\ \A i \in CutNodes \cup Range(part.saved) : meta[i].tensor
        /\ \A e \in FlowNetwork(joint, meta) :
              (e.u # Source /\ e.v # Sink /\ e.u.n = e.v.n /\ ~IsTensor(meta, e.u.n)) => e.inf

\* A partition of a graph in which a non-tensor operation outside the
\* tangent closure feeds the closure, and something is saved.
C15_Witness ==
    /\ part.fn = "mincut" /\ part.ok /\ part.saved # <<>>
    /\ \E i \in 1..Len(nodes) :
          /\ i \notin Closure /\ ~meta[i].tensor
          /\ Users(joint, i) \cap Closure # {}

ZeroSized == {i \in 1..Len(nodes) : i \notin Closure /\ meta[i].tensor /\ meta[i].nbytes = 0}

InOutEdge(i) == CHOOSE e \in FlowNetwork(joint, meta) : e.u = In(i) /\ e.v = Out(i)

\* The network with the in->out edge of node i made infinite.
Without(i) ==
    {IF e.u = In(i) /\ e.v = Out(i) THEN InfEdge(e.u, e.v) ELSE e :
        e \in FlowNetwork(joint, meta)}

\* C16 as stated: a zero-sized tensor node has in->out capacity 0 and is in
\* the decoded cut only when no cut of finite capacity avoids it.
C16_ZeroSizeOnlyWhenForced ==
    CutComputed =>
        \A i \in ZeroSized :
            /\ InOutEdge(i).capacity = 0 /\ ~InOutEdge(i).inf
            /\ i \in CutNodes => FiniteSides(Without(i)) = {}

\* C16 amended: a zero-sized tensor node has in->out capacity 0, and it is
\* in the decoded cut whenever one of its users is in the tangent closure.
C16_ZeroSizeCutWhenUsedByBackward ==
    CutComputed =>
        \A i \in ZeroSized :
            /\ InOutEdge(i).capacity = 0 /\ ~InOutEdge(i).inf
            /\ Users(joint, i) \cap Closure # {} => i \in CutNodes

\* A zero-sized operation used by the tangent closure whose argument is a
\* primal of positive size.
C16_Witness ==
    /\ CutComputed /\ part.ok
    /\ \E i \in ZeroSized :
          /\ nodes[i].op = "call_function"
          /\ Users(joint, i) \cap Closure # {}
          /\ \E a \in Range(nodes[i].args) : is_primal(nodes[a]) /\ meta[a].nbytes > 0

TensorsOutsideClosure == {i \in 1..Len(nodes) : i \notin Closure /\ meta[i].tensor}

Bytes(S) == SumOver(S, [i \in S |-> meta[i].nbytes])

\* The capacities the code gives: the byte size of a placeholder, twice the
\* byte size of an operation.
Weights(S) ==
    SumOver(S, [i \in S |-> IF nodes[i].op = "placeholder" THEN meta[i].nbytes
                             ELSE 2 * meta[i].nbytes])

PinnedTargets == compute_intense_ops \cup view_ops \cup misc_ops \cup random_ops \cup buggy_ops

Pinned == {i \in 1..Len(nodes) : i \notin Closure /\ nodes[i].target \in PinnedTargets}

\* C18: a pinned operation outside the tangent closure is not an operation
\* of the backward graph the min-cut partitioner returns.
C18_PinnedNotRecomputed ==
    (part.fn = "mincut" /\ part.ok) =>
        \A k \in 1..Len(part.bw.nodes) :
            part.bw.nodes[k].op = "call_function" => part.bw.nodes[k].name \notin Pinned

\* A pinned operation the backward needs, dearer to save than its primal
\* argument: it is saved all the same.
C18_Witness ==
    /\ part.fn = "mincut" /\ part.ok
    /\ \E i \in Pinned :
          /\ Users(joint, i) \cap Closure # {}
          /\ i \in Range(part.saved)
          /\ \E a \in Range(nodes[i].args) :
                is_primal(nodes[a]) /\ Weights({a}) < Weights({i})

\* ------------------------------------------------------------------- reset
\* C19: after clear_compile_cache() a wrapper made earlier stays usable (its
\* calls do not raise), num_of_recompilations() is 0 until something is
\* compiled again, and the next call for a key finds nothing cached and
\* compiles afresh, like a first call.
C19_ResetKeepsWrapperUsable ==
    /\ ~hist.attribute_error
    /\ hist.cleared = Keys => num_of_recompilations = 0
    /\ \A t \in threads :
          pc[t] = "looked" /\ frame[t].key \in hist.cleared => cached_fn = None

====
